---- MODULE Spec2Model ----
(***************************************************************************)
(* A model of babbl's cache subsystem (src/babbl/cache.py): the            *)
(* CacheManager, its in-memory store cache_data, the durable file          *)
(* cache.json it loads at construction and rewrites after every mutation,  *)
(* and the file system the staleness checks read.                          *)
(***************************************************************************)
EXTENDS Integers, Sequences, FiniteSets, TLC

\* ------------------------------------------------------------------ bounds

\* The longest source file modelled, in bytes.
MaxLen == 1

\* --------------------------------------------------------------- universes

\* The CacheManager instances (one per process) sharing one cache directory.
Procs == {1, 2}

\* The file_path arguments: a relative path and absolute ones; the working
\* directory is /w, so "a.md" and "/w/a.md" name the same file.
PathArgs == {"a.md", "/w/a.md", "/w/b.md"}

\* The output_path arguments.
Outputs == {"a.html", "b.html"}

ByteVals == {0, 1}

\* The byte strings a source file can hold.
FileBytes == UNION {[1..n -> ByteVals] : n \in 0..MaxLen}

\* A file that cannot be opened for reading (deleted, or permission denied):
\* open() raises IOError for both.
Unreadable == [readable |-> FALSE, bytes |-> <<>>]

FileStates == {[readable |-> TRUE, bytes |-> b] : b \in FileBytes} \cup {Unreadable}

\* The content strings (sequences of code points) callers hold in memory.
Contents == {<<>>, <<97>>, <<233>>}

\* The readings datetime.now().isoformat() gives.
Times == {"t1", "t2"}

\* Optional[...] arguments.
None == [none |-> TRUE, v |-> <<>>]

Some(x) == [none |-> FALSE, v |-> x]

\* The str "".
EmptyStr == <<>>

\* A dict with no items.
EmptyMap == [x \in {} |-> 0]

\* ------------------------------------------------------------------ hashing

\* hashlib.md5(..).hexdigest(): a non-empty digest, taken as injective.
md5(bytes) == <<"md5">> \o bytes

\* str.encode("utf-8") of one code point below U+0800.
utf8_char(cp) == IF cp < 128 THEN <<cp>> ELSE <<192 + (cp \div 64), 128 + (cp % 64)>>

RECURSIVE encode_utf8(_)
encode_utf8(s) == IF s = <<>> THEN <<>> ELSE utf8_char(Head(s)) \o encode_utf8(Tail(s))

\* A variant that returns the digest of what was read when open() fails.
_calculate_hash_swallow(fs) == md5(fs.bytes)

_calculate_hash(fs) == IF fs.readable THEN md5(fs.bytes) ELSE EmptyStr

\* A variant that encodes with errors ignored into ASCII, dropping every
\* code point above 127.
_calculate_content_hash_ascii(content) == md5(SelectSeq(content, LAMBDA cp : cp < 128))

_calculate_content_hash(content) == md5(encode_utf8(content))

get_cache_key(file_path) == IF file_path = "a.md" THEN "/w/a.md" ELSE file_path

Keys == {get_cache_key(p) : p \in PathArgs}

\* dict.get(k, default)
Get(d, k, default) == IF k \in DOMAIN d THEN d[k] ELSE default

\* Python truth of an Optional[str] / Optional[dict] argument.
Truthy(arg) == ~arg.none /\ DOMAIN arg.v # {}

\* --------------------------------------------------------------------- JSON

\* The Python values a metadata dict can hold under its key: a str, a list, a
\* tuple and a datetime.date.
PyVals == {"s", "[s]", "(s,)", "date"}

\* json.dump writes a tuple as an array; everything else modelled is kept.
json_value(v) == IF v = "(s,)" THEN "[s]" ELSE v

\* json.dump raises TypeError on a value it cannot serialize.
serializable(v) == v # "date"

json_entry(e) ==
  IF "metadata" \in DOMAIN e
    THEN [e EXCEPT !.metadata = [x \in DOMAIN @ |-> json_value(@[x])]]
    ELSE e

entry_serializable(e) ==
  "metadata" \in DOMAIN e => \A x \in DOMAIN e.metadata : serializable(e.metadata[x])

\* An in-memory store: what json.load returned, or a dict built since.
DictStore(m) == [kind |-> "dict", map |-> m]

EmptyStore == DictStore(EmptyMap)

store_serializable(store) == \A k \in DOMAIN store.map : entry_serializable(store.map[k])

\* The JSON document json.dump(self.cache_data, f) writes when it succeeds.
json_dump(store) == [kind |-> store.kind, map |-> [k \in DOMAIN store.map |-> json_entry(store.map[k])]]

\* ---------------------------------------------------------------- the state

VARIABLES
  files,       \* the source files: [Keys -> FileStates]
  outExists,   \* the output files that exist on disk
  disk,        \* the durable cache file cache.json: [kind, map]
  cache_data,  \* each manager's in-memory store
  pc,          \* each manager's position
  last,        \* the outcome of the latest call
  snap,        \* history: per manager and key, the latest update_cache: the file it read and the content_hash it was given
  mut,         \* history: per manager, the mutation whose persist is under way
  self_render, \* the renderer instance's attribute self.render: the dispatch function
  th,          \* each thread's position in a render call on that instance
  outs,        \* history: per document, the outputs its renders returned, one call after the other
  arg,         \* the arguments of the call under way
  res          \* what that call returned or raised

\* The cache subsystem's variables and the rendering side's.
cvars == <<files, outExists, disk, cache_data, pc, last, snap, mut>>

rvars == <<self_render, th, outs, arg, res>>

vars == <<files, outExists, disk, cache_data, pc, last, snap, mut, self_render, th, outs, arg, res>>

\* The threads that call one renderer instance.
Threads == {1, 2}

\* A thread that is in no render call.
IdleThread ==
  [pc |-> "idle", doc |-> <<>>, wrap |-> FALSE, i |-> 0, j |-> 0, frame |-> "none",
   render_func |-> "render", out |-> <<>>, alt |-> <<>>]

\* No call has been made.
NoCall == [op |-> "none"]

\* A renderer as HTMLRenderer.__init__ leaves it, no call under way.
RendererIdle ==
  /\ self_render = "render"
  /\ th = [t \in Threads |-> IdleThread]
  /\ outs = EmptyMap
  /\ arg = NoCall
  /\ res = NoCall

MissingFile == [kind |-> "missing", map |-> EmptyMap]

\* What a call did besides returning: the exception it raised, if any, and
\* whether _save_cache printed its warning.
Outcome(raised, warned) == [raised |-> raised, warned |-> warned]

\* No persist under way; pre and post are the store before and after the
\* mutation, onDisk what the cache file held when _save_cache opened it.
NoMut == [active |-> FALSE, pre |-> EmptyStore, post |-> EmptyStore, onDisk |-> EmptyStore]

\* The cache subsystem untouched: an empty cache directory, no manager, the
\* source files holding one byte each.
CacheIdle ==
  /\ files = [k \in Keys |-> [readable |-> TRUE, bytes |-> <<0>>]]
  /\ outExists = {}
  /\ disk = MissingFile
  /\ cache_data = [m \in Procs |-> EmptyStore]
  /\ pc = [m \in Procs |-> "absent"]
  /\ last = Outcome("none", FALSE)
  /\ snap = [m \in Procs |-> EmptyMap]
  /\ mut = [m \in Procs |-> NoMut]

\* Manager 1 has been constructed in a fresh cache directory.
Init ==
  /\ files \in [Keys -> FileStates]
  /\ outExists = {}
  /\ disk = MissingFile
  /\ cache_data = [m \in Procs |-> EmptyStore]
  /\ pc = [m \in Procs |-> IF m = 1 THEN "idle" ELSE "absent"]
  /\ last = Outcome("none", FALSE)
  /\ snap = [m \in Procs |-> EmptyMap]
  /\ mut = [m \in Procs |-> NoMut]
  /\ RendererIdle

\* ------------------------------------------------------------ pure helpers

\* d[k] = v on a dict.
Put(d, k, v) == [x \in DOMAIN d \cup {k} |-> IF x = k THEN v ELSE d[x]]

\* del d[k]
Del(d, k) == [x \in DOMAIN d \ {k} |-> d[x]]

\* The cache_entry dict update_cache builds.
cache_entry(file_hash, output_path, now, content_hash, metadata) ==
  LET base == [hash |-> file_hash, output_path |-> output_path, last_processed |-> now]
      withHash == IF Truthy(content_hash) THEN base @@ [content_hash |-> content_hash.v] ELSE base
  IN IF Truthy(metadata) THEN withHash @@ [metadata |-> metadata.v] ELSE withHash

\* _load_cache: what the constructor gets from the durable file.
_load_cache(d) ==
  CASE d.kind = "missing" -> [raised |-> "none", store |-> EmptyStore]
    [] d.kind = "unreadable" -> [raised |-> "none", store |-> EmptyStore]
    [] d.kind \in {"garbage", "empty", "partial"} -> [raised |-> "none", store |-> EmptyStore]
    [] d.kind = "notutf8" -> [raised |-> "UnicodeDecodeError", store |-> EmptyStore]
    [] OTHER -> [raised |-> "none", store |-> [kind |-> d.kind, map |-> d.map]]

PartialFile == [kind |-> "partial", map |-> EmptyMap]

TruncatedFile == [kind |-> "empty", map |-> EmptyMap]

\* The ways the file system can answer _save_cache: the write goes through,
\* open() raises IOError, or a write raises IOError after the truncation.
IOAnswers == {"ok", "open_err", "write_err"}

\* A variant that patches the document on disk with the entries in memory
\* instead of replacing it.
_save_cache_patch(store, d, io) ==
  [disk |-> [kind |-> "dict",
             map |-> [k \in DOMAIN d.map \cup DOMAIN store.map |->
                        IF k \in DOMAIN store.map THEN json_entry(store.map[k]) ELSE d.map[k]]],
   raised |-> "none", warned |-> FALSE]

\* _save_cache as one step: the durable file it leaves, what it raises, and
\* whether it printed the warning.
_save_cache(store, d, io) ==
  CASE io = "open_err" -> [disk |-> d, raised |-> "none", warned |-> TRUE]
    [] io = "write_err" -> [disk |-> PartialFile, raised |-> "none", warned |-> TRUE]
    [] OTHER ->
         IF store_serializable(store)
           THEN [disk |-> json_dump(store), raised |-> "none", warned |-> FALSE]
           ELSE [disk |-> PartialFile, raised |-> "TypeError", warned |-> FALSE]

\* ------------------------------------------------------------------ queries

\* A variant that compares against the entry's content hash.
is_stale_content_field(store, fs, file_path) ==
  LET cache_key == get_cache_key(file_path)
  IN IF cache_key \notin DOMAIN store.map
       THEN TRUE
       ELSE _calculate_hash(fs[cache_key]) # Get(store.map[cache_key], "content_hash", EmptyStr)

is_stale(store, fs, file_path) ==
  LET cache_key == get_cache_key(file_path)
  IN IF cache_key \notin DOMAIN store.map
       THEN TRUE
       ELSE _calculate_hash(fs[cache_key]) # Get(store.map[cache_key], "hash", EmptyStr)

is_content_stale(store, file_path, content) ==
  LET cache_key == get_cache_key(file_path)
  IN IF cache_key \notin DOMAIN store.map
       THEN TRUE
       ELSE _calculate_content_hash(content) # Get(store.map[cache_key], "content_hash", EmptyStr)

\* A variant that trusts the record without looking at the disk.
get_cached_output_path_unchecked(store, existing, file_path) ==
  LET cache_key == get_cache_key(file_path)
  IN IF cache_key \in DOMAIN store.map
          /\ "output_path" \in DOMAIN store.map[cache_key]
          /\ store.map[cache_key].output_path # ""
       THEN Some(store.map[cache_key].output_path)
       ELSE None

\* The Optional[Path] returned: None, or Some(path).
get_cached_output_path(store, existing, file_path) ==
  LET cache_key == get_cache_key(file_path)
  IN IF cache_key \in DOMAIN store.map
          /\ "output_path" \in DOMAIN store.map[cache_key]
          /\ store.map[cache_key].output_path # ""
          /\ store.map[cache_key].output_path \in existing
       THEN Some(store.map[cache_key].output_path)
       ELSE None

\* A query on a store json.load returned as null raises TypeError ("in" on
\* None); on a list "in" works and finds nothing.
query_raises(store) == store.kind = "null"

\* ---------------------------------------------------------------- handlers

\* CacheManager(cache_dir): lines 20-23.
Construct(m) ==
  /\ pc[m] = "absent"
  /\ LET loaded == _load_cache(disk)
     IN /\ last' = Outcome(loaded.raised, FALSE)
        /\ IF loaded.raised = "none"
             THEN /\ pc' = [pc EXCEPT ![m] = "idle"]
                  /\ cache_data' = [cache_data EXCEPT ![m] = loaded.store]
             ELSE UNCHANGED <<pc, cache_data>>
  /\ mut' = [mut EXCEPT ![m] = NoMut]
  /\ UNCHANGED <<files, outExists, disk, snap>>
  /\ UNCHANGED rvars

\* The process ends; its manager and in-memory store are gone.
Exit(m) ==
  /\ pc[m] = "idle"
  /\ pc' = [pc EXCEPT ![m] = "absent"]
  /\ cache_data' = [cache_data EXCEPT ![m] = EmptyStore]
  /\ snap' = [snap EXCEPT ![m] = EmptyMap]
  /\ UNCHANGED <<files, outExists, disk, last, mut>>
  /\ UNCHANGED rvars

\* A variant that merges the new fields into the entry the path already has
\* (dict.update) instead of assigning a new entry.
update_cache_merge(m, file_path, output_path, content_hash, metadata, now, io) ==
  /\ pc[m] = "idle"
  /\ LET cache_key == get_cache_key(file_path)
         file_hash == _calculate_hash(files[cache_key])
         entry == cache_entry(file_hash, output_path, now, content_hash, metadata)
         old == Get(cache_data[m].map, cache_key, EmptyMap)
     IN IF cache_data[m].kind # "dict"
          THEN /\ last' = Outcome("TypeError", FALSE)
               /\ UNCHANGED <<cache_data, disk, snap>>
          ELSE LET store == DictStore(Put(cache_data[m].map, cache_key, entry @@ old))
                   saved == _save_cache(store, disk, io)
               IN /\ cache_data' = [cache_data EXCEPT ![m] = store]
                  /\ disk' = saved.disk
                  /\ last' = Outcome(saved.raised, saved.warned)
                  /\ snap' = [snap EXCEPT ![m] = Put(@, cache_key, [file |-> files[cache_key], content_hash |-> content_hash])]
  /\ UNCHANGED <<files, outExists, pc, mut>>
  /\ UNCHANGED rvars

\* update_cache, lines 143-159, with _save_cache as its last step.
update_cache(m, file_path, output_path, content_hash, metadata, now, io) ==
  /\ pc[m] = "idle"
  /\ LET cache_key == get_cache_key(file_path)
         file_hash == _calculate_hash(files[cache_key])
         entry == cache_entry(file_hash, output_path, now, content_hash, metadata)
     IN IF cache_data[m].kind # "dict"
          THEN /\ last' = Outcome("TypeError", FALSE)
               /\ UNCHANGED <<cache_data, disk, snap>>
          ELSE LET store == DictStore(Put(cache_data[m].map, cache_key, entry))
                   saved == _save_cache(store, disk, io)
               IN /\ cache_data' = [cache_data EXCEPT ![m] = store]
                  /\ disk' = saved.disk
                  /\ last' = Outcome(saved.raised, saved.warned)
                  /\ snap' = [snap EXCEPT ![m] = Put(@, cache_key, [file |-> files[cache_key], content_hash |-> content_hash])]
  /\ UNCHANGED <<files, outExists, pc, mut>>
  /\ UNCHANGED rvars

\* clear_cache, lines 184-185.
clear_cache(m, io) ==
  /\ pc[m] = "idle"
  /\ LET saved == _save_cache(EmptyStore, disk, io)
     IN /\ cache_data' = [cache_data EXCEPT ![m] = EmptyStore]
        /\ disk' = saved.disk
        /\ last' = Outcome(saved.raised, saved.warned)
  /\ snap' = [snap EXCEPT ![m] = EmptyMap]
  /\ UNCHANGED <<files, outExists, pc, mut>>
  /\ UNCHANGED rvars

\* remove_from_cache, lines 194-197.
remove_from_cache(m, file_path, io) ==
  /\ pc[m] = "idle"
  /\ LET cache_key == get_cache_key(file_path)
     IN CASE query_raises(cache_data[m]) ->
               /\ last' = Outcome("TypeError", FALSE)
               /\ UNCHANGED <<cache_data, disk, snap>>
          [] ~query_raises(cache_data[m]) /\ cache_key \notin DOMAIN cache_data[m].map ->
               /\ last' = Outcome("none", FALSE)
               /\ UNCHANGED <<cache_data, disk, snap>>
          [] OTHER ->
               LET store == DictStore(Del(cache_data[m].map, cache_key))
                   saved == _save_cache(store, disk, io)
               IN /\ cache_data' = [cache_data EXCEPT ![m] = store]
                  /\ disk' = saved.disk
                  /\ last' = Outcome(saved.raised, saved.warned)
                  /\ snap' = [snap EXCEPT ![m] = Del(@, cache_key)]
  /\ UNCHANGED <<files, outExists, pc, mut>>
  /\ UNCHANGED rvars

\* ------------------------------------------------------- file-system events

\* The bytes of a source file change, or it becomes unreadable or readable.
WriteFile(k, fs) ==
  /\ fs # files[k]
  /\ files' = [files EXCEPT ![k] = fs]
  /\ UNCHANGED <<outExists, disk, cache_data, pc, last, snap, mut>>
  /\ UNCHANGED rvars

\* An output file is written (by a render) or deleted.
CreateOutput(o) ==
  /\ o \notin outExists
  /\ outExists' = outExists \cup {o}
  /\ UNCHANGED <<files, disk, cache_data, pc, last, snap, mut>>
  /\ UNCHANGED rvars

DeleteOutput(o) ==
  /\ o \in outExists
  /\ outExists' = outExists \ {o}
  /\ UNCHANGED <<files, disk, cache_data, pc, last, snap, mut>>
  /\ UNCHANGED rvars

\* ----------------------------------------------------------- specifications

\* One process using its manager: every handler runs to completion and the
\* cache file is written without error; source and output files change under it.
Next ==
  \/ \E p \in PathArgs, o \in Outputs : update_cache(1, p, o, None, None, "t1", "ok")
  \/ clear_cache(1, "ok")
  \/ \E p \in PathArgs : remove_from_cache(1, p, "ok")
  \/ \E k \in Keys, fs \in FileStates : WriteFile(k, fs)
  \/ \E o \in Outputs : CreateOutput(o)
  \/ \E o \in Outputs : DeleteOutput(o)

Spec == Init /\ [][Next]_vars

\* The content_hash arguments: None, "", and the hash of each content.
HashArgs == {None, Some(EmptyStr)} \cup {Some(_calculate_content_hash(c)) : c \in Contents}

\* One process whose callers hold the content in memory and pass its hash to
\* update_cache, while the source files change on disk.
NextContent ==
  \/ \E p \in PathArgs, ch \in HashArgs : update_cache(1, p, "a.html", ch, None, "t1", "ok")
  \/ clear_cache(1, "ok")
  \/ \E p \in PathArgs : remove_from_cache(1, p, "ok")
  \/ \E k \in Keys, fs \in FileStates : WriteFile(k, fs)

SpecContent == Init /\ [][NextContent]_vars

\* The metadata arguments: None, and a dict holding one of the values.
MetaArgs == {None} \cup {Some([k |-> v]) : v \in PyVals}

\* What another program can leave in place of cache.json: nothing, a file that
\* cannot be opened, bytes that are not UTF-8, text that is not JSON, and JSON
\* documents that are no object.
ForeignFiles ==
  {[kind |-> x, map |-> EmptyMap] : x \in {"missing", "unreadable", "notutf8", "garbage", "list", "null"}}

ForeignWrite(d) ==
  /\ d # disk
  /\ disk' = d
  /\ UNCHANGED <<files, outExists, cache_data, pc, last, snap, mut>>
  /\ UNCHANGED rvars

\* No manager exists yet; the source files hold one byte each.
InitPersist ==
  /\ files = [k \in Keys |-> [readable |-> TRUE, bytes |-> <<0>>]]
  /\ outExists = {}
  /\ disk = MissingFile
  /\ cache_data = [m \in Procs |-> EmptyStore]
  /\ pc = [m \in Procs |-> "absent"]
  /\ last = Outcome("none", FALSE)
  /\ snap = [m \in Procs |-> EmptyMap]
  /\ mut = [m \in Procs |-> NoMut]
  /\ RendererIdle

\* Processes that run one after the other on one cache directory: each
\* constructs a manager, mutates the store and ends; the file system may
\* refuse a write, and the cache file may be replaced between two processes.
NextPersist ==
  \/ Construct(1)
  \/ Exit(1)
  \/ \E p \in PathArgs, md \in MetaArgs, io \in IOAnswers :
       update_cache(1, p, "a.html", None, md, "t1", io)
  \/ \E io \in IOAnswers : clear_cache(1, io)
  \/ \E p \in PathArgs, io \in IOAnswers : remove_from_cache(1, p, io)
  \/ \E d \in ForeignFiles : pc[1] = "absent" /\ ForeignWrite(d)

SpecPersist == InitPersist /\ [][NextPersist]_vars

\* --------------------------------------------- handlers, statement by statement

\* What the cache file holds after a writer that opened it with "w" writes doc
\* from offset 0 and closes: doc, unless another writer has meanwhile written a
\* longer document (one with more entries), whose tail then follows doc.
overlay(doc, d) ==
  IF d.kind = "dict" /\ Cardinality(DOMAIN d.map) > Cardinality(DOMAIN doc.map)
    THEN [kind |-> "garbage", map |-> EmptyMap]
    ELSE doc

\* update_cache up to line 158: the entry is in memory, _save_cache is next.
BeginUpdate(m, file_path, output_path, content_hash, metadata, now) ==
  /\ pc[m] = "idle"
  /\ cache_data[m].kind = "dict"
  /\ LET cache_key == get_cache_key(file_path)
         entry == cache_entry(_calculate_hash(files[cache_key]), output_path, now, content_hash, metadata)
         store == DictStore(Put(cache_data[m].map, cache_key, entry))
     IN /\ cache_data' = [cache_data EXCEPT ![m] = store]
        /\ snap' = [snap EXCEPT ![m] = Put(@, cache_key, [file |-> files[cache_key], content_hash |-> content_hash])]
        /\ mut' = [mut EXCEPT ![m] = [active |-> TRUE, pre |-> cache_data[m], post |-> store, onDisk |-> EmptyStore]]
  /\ pc' = [pc EXCEPT ![m] = "save"]
  /\ UNCHANGED <<files, outExists, disk, last>>
  /\ UNCHANGED rvars

\* clear_cache, line 184.
BeginClear(m) ==
  /\ pc[m] = "idle"
  /\ cache_data' = [cache_data EXCEPT ![m] = EmptyStore]
  /\ snap' = [snap EXCEPT ![m] = EmptyMap]
  /\ mut' = [mut EXCEPT ![m] = [active |-> TRUE, pre |-> cache_data[m], post |-> EmptyStore, onDisk |-> EmptyStore]]
  /\ pc' = [pc EXCEPT ![m] = "save"]
  /\ UNCHANGED <<files, outExists, disk, last>>
  /\ UNCHANGED rvars

\* remove_from_cache, lines 194-196, of an entry that exists.
BeginRemove(m, file_path) ==
  /\ pc[m] = "idle"
  /\ cache_data[m].kind = "dict"
  /\ get_cache_key(file_path) \in DOMAIN cache_data[m].map
  /\ LET store == DictStore(Del(cache_data[m].map, get_cache_key(file_path)))
     IN /\ cache_data' = [cache_data EXCEPT ![m] = store]
        /\ mut' = [mut EXCEPT ![m] = [active |-> TRUE, pre |-> cache_data[m], post |-> store, onDisk |-> EmptyStore]]
  /\ snap' = [snap EXCEPT ![m] = Del(@, get_cache_key(file_path))]
  /\ pc' = [pc EXCEPT ![m] = "save"]
  /\ UNCHANGED <<files, outExists, disk, last>>
  /\ UNCHANGED rvars

\* _save_cache, line 38: open(.., "w") truncates the file.
SaveOpen(m) ==
  /\ pc[m] = "save"
  /\ disk' = TruncatedFile
  /\ mut' = [mut EXCEPT ![m].onDisk = _load_cache(disk).store]
  /\ pc' = [pc EXCEPT ![m] = "dump"]
  /\ UNCHANGED <<files, outExists, cache_data, last, snap>>
  /\ UNCHANGED rvars

\* _save_cache, line 39, for a store larger than the write buffer: the first
\* part of the document reaches the file before json.dump is done.
SavePart(m) ==
  /\ pc[m] = "dump"
  /\ disk = TruncatedFile
  /\ DOMAIN cache_data[m].map # {}
  /\ disk' = PartialFile
  /\ UNCHANGED <<files, outExists, cache_data, pc, last, snap, mut>>
  /\ UNCHANGED rvars

\* _save_cache, line 39 to the end of the with block: the document is written
\* and the file closed.
SaveClose(m) ==
  /\ pc[m] = "dump"
  /\ LET saved == _save_cache(cache_data[m], disk, "ok")
     IN /\ disk' = IF saved.raised = "none" THEN overlay(saved.disk, disk) ELSE saved.disk
        /\ last' = Outcome(saved.raised, saved.warned)
  /\ mut' = [mut EXCEPT ![m].active = FALSE]
  /\ pc' = [pc EXCEPT ![m] = "idle"]
  /\ UNCHANGED <<files, outExists, cache_data, snap>>
  /\ UNCHANGED rvars

\* The process is killed while it is in _save_cache.
Crash(m) ==
  /\ pc[m] \in {"save", "dump"}
  /\ pc' = [pc EXCEPT ![m] = "absent"]
  /\ cache_data' = [cache_data EXCEPT ![m] = EmptyStore]
  /\ snap' = [snap EXCEPT ![m] = EmptyMap]
  /\ UNCHANGED <<files, outExists, disk, last, mut>>
  /\ UNCHANGED rvars

\* Two processes, each with its own manager on the shared cache directory,
\* calling update_cache; their statements interleave.
NextConc ==
  \/ \E m \in Procs : Construct(m)
  \/ \E m \in Procs, p \in PathArgs : BeginUpdate(m, p, "a.html", None, None, "t1")
  \/ \E m \in Procs : SaveOpen(m)
  \/ \E m \in Procs : SaveClose(m)

SpecConc == InitPersist /\ [][NextConc]_vars

\* One process at a time on the cache directory; a process can be killed
\* inside _save_cache, and the next one constructs a new manager.
NextCrash ==
  \/ Construct(1)
  \/ Exit(1)
  \/ \E p \in PathArgs, t \in Times : BeginUpdate(1, p, "a.html", None, None, t)
  \/ BeginClear(1)
  \/ \E p \in PathArgs : BeginRemove(1, p)
  \/ SaveOpen(1)
  \/ SavePart(1)
  \/ SaveClose(1)
  \/ Crash(1)

SpecCrash == InitPersist /\ [][NextCrash]_vars

\* ----------------------------------------------------------- renderer: text

\* The longest free text modelled, in characters and character references.
MaxText == 2

\* The characters html.escape replaces, the apostrophe apart.
UnsafeChars == {"<", ">", "&", "\""}

\* The character references of those characters.
CharRefs == {"&lt;", "&gt;", "&amp;", "&quot;", "&#x27;"}

\* A text is a sequence of characters and HTML character references; the
\* letter a stands for every character that HTML leaves alone.
TextTokens == {"a", "'"} \cup UnsafeChars \cup CharRefs

Texts == UNION {[1..n -> TextTokens] : n \in 0..MaxText}

\* html.unescape: a character reference becomes its character.
html_unescape_char(c) ==
  CASE c = "&lt;" -> "<"
    [] c = "&gt;" -> ">"
    [] c = "&amp;" -> "&"
    [] c = "&quot;" -> "\""
    [] c = "&#x27;" -> "'"
    [] OTHER -> c

html_unescape(s) == [i \in 1..Len(s) |-> html_unescape_char(s[i])]

\* What follows the ampersand in a character reference.
ref_tail(c) ==
  CASE c = "&lt;" -> "lt;"
    [] c = "&gt;" -> "gt;"
    [] c = "&amp;" -> "amp;"
    [] c = "&quot;" -> "quot;"
    [] c = "&#x27;" -> "#x27;"

\* html.escape (quote=True) of one character; the ampersand of a character
\* reference is a character like any other.
html_escape_char(c) ==
  CASE c = "&" -> <<"&amp;">>
    [] c = "<" -> <<"&lt;">>
    [] c = ">" -> <<"&gt;">>
    [] c = "\"" -> <<"&quot;">>
    [] c = "'" -> <<"&#x27;">>
    [] c \in CharRefs -> <<"&amp;", ref_tail(c)>>
    [] OTHER -> <<c>>

RECURSIVE html_escape(_)
html_escape(s) == IF s = <<>> THEN <<>> ELSE html_escape_char(Head(s)) \o html_escape(Tail(s))

\* str.replace("&#x27;", "'").
replace_apostrophe(s) == [i \in 1..Len(s) |-> IF s[i] = "&#x27;" THEN "'" ELSE s[i]]

\* HTMLRenderer.escape_html, line 204.
escape_html(raw) == replace_apostrophe(html_escape(html_unescape(raw)))

\* ------------------------------------------- renderer: html(), step by step

\* The inline nodes of a paragraph. An emphasis holds the raw text "a"; an
\* image holds the children its alt text is rendered from; a broken node is
\* one whose rendering raises (it has no children attribute to read).
Emphasis == [kind |-> "emphasis", children |-> <<>>]

Image(children) == [kind |-> "image", children |-> children]

\* The documents rendered, one paragraph each: an image followed by an
\* emphasis, the same with an image whose child is broken, and an emphasis.
Docs ==
  {<<Image(<<"emphasis">>), Emphasis>>, <<Image(<<"broken">>), Emphasis>>, <<Emphasis>>}

\* render_emphasis, line 380, around render_raw_text of "a".
render_emphasis == <<"<em class=\"emphasis\">">> \o escape_html(<<"a">>) \o <<"</em>">>

\* render_plain_text of an emphasis, lines 389-391: its children, flattened.
render_plain_text == escape_html(<<"a">>)

\* What self.render(node) returns for an emphasis, by the function that
\* self.render is bound to when the node is dispatched.
dispatch_emphasis(render) == IF render = "render" THEN render_emphasis ELSE render_plain_text

\* The template of render_image, lines 404-411, without title and url.
image_template(body) == <<"<img src=\"\" alt=\"">> \o body \o <<"\" class=\"image\" />">>

\* The document template of html(), lines 219-236, for metadata None.
html_template(content) ==
  <<"<!DOCTYPE html>...<body>\n<section>\n\n">> \o content \o <<"\n</section>\n</body>\n</html>">>

Set(t, r) == th' = [th EXCEPT ![t] = r]

\* html(element, metadata), line 213: the render of the document begins.
html_call(t, d) ==
  /\ th[t].pc = "idle"
  /\ Set(t, [IdleThread EXCEPT !.pc = "paragraph", !.doc = d])
  /\ UNCHANGED <<self_render, outs, arg, res>>
  /\ UNCHANGED cvars

\* The document's paragraph is dispatched through self.render: render_paragraph
\* (lines 308-313) wraps its children, render_plain_text only renders them.
render_paragraph(t) ==
  /\ th[t].pc = "paragraph"
  /\ Set(t, [th[t] EXCEPT !.pc = "inline", !.i = 1,
                          !.wrap = (self_render = "render"),
                          !.out = IF self_render = "render" THEN <<"<p class=\"paragraph\">">> ELSE <<>>])
  /\ UNCHANGED <<self_render, outs, arg, res>>
  /\ UNCHANGED cvars

\* The paragraph's next child is dispatched through self.render. An image
\* enters render_image in normal mode and is flattened by render_plain_text
\* otherwise.
render_inline(t) ==
  /\ th[t].pc = "inline"
  /\ th[t].i <= Len(th[t].doc)
  /\ LET node == th[t].doc[th[t].i]
     IN CASE node.kind = "emphasis" ->
               Set(t, [th[t] EXCEPT !.out = @ \o dispatch_emphasis(self_render), !.i = @ + 1])
          [] node.kind = "image" /\ self_render = "render" ->
               Set(t, [th[t] EXCEPT !.pc = "image_save"])
          [] node.kind = "image" /\ self_render # "render" ->
               Set(t, [th[t] EXCEPT !.pc = "children", !.frame = "plain_text", !.j = 1, !.alt = <<>>])
  /\ UNCHANGED <<self_render, outs, arg, res>>
  /\ UNCHANGED cvars

\* render_image, line 407: render_func = self.render.
image_save(t) ==
  /\ th[t].pc = "image_save"
  /\ Set(t, [th[t] EXCEPT !.pc = "image_set", !.render_func = self_render])
  /\ UNCHANGED <<self_render, outs, arg, res>>
  /\ UNCHANGED cvars

\* render_image, line 408: self.render = self.render_plain_text.
image_set(t) ==
  /\ th[t].pc = "image_set"
  /\ self_render' = "render_plain_text"
  /\ Set(t, [th[t] EXCEPT !.pc = "children", !.frame = "image", !.j = 1, !.alt = <<>>])
  /\ UNCHANGED <<outs, arg, res>>
  /\ UNCHANGED cvars

\* render_children of the image, line 409 (or line 391 when the image itself
\* was flattened): the next child is dispatched through self.render. A broken
\* child raises, and the exception leaves html().
render_child(t) ==
  /\ th[t].pc = "children"
  /\ th[t].j <= Len(th[t].doc[th[t].i].children)
  /\ IF th[t].doc[th[t].i].children[th[t].j] = "broken"
       THEN Set(t, IdleThread)
       ELSE Set(t, [th[t] EXCEPT !.alt = @ \o dispatch_emphasis(self_render), !.j = @ + 1])
  /\ UNCHANGED <<self_render, outs, arg, res>>
  /\ UNCHANGED cvars

\* render_image, lines 410-411: self.render = render_func, and the tag.
image_restore(t) ==
  /\ th[t].pc = "children"
  /\ th[t].frame = "image"
  /\ th[t].j > Len(th[t].doc[th[t].i].children)
  /\ self_render' = th[t].render_func
  /\ Set(t, [th[t] EXCEPT !.pc = "inline", !.frame = "none", !.i = @ + 1,
                          !.out = @ \o image_template(th[t].alt)])
  /\ UNCHANGED <<outs, arg, res>>
  /\ UNCHANGED cvars

\* render_plain_text of an image, line 391, returns its flattened children.
plain_text_return(t) ==
  /\ th[t].pc = "children"
  /\ th[t].frame = "plain_text"
  /\ th[t].j > Len(th[t].doc[th[t].i].children)
  /\ Set(t, [th[t] EXCEPT !.pc = "inline", !.frame = "none", !.i = @ + 1, !.out = @ \o th[t].alt])
  /\ UNCHANGED <<self_render, outs, arg, res>>
  /\ UNCHANGED cvars

\* html() returns the document, lines 219-236. The history of outputs is kept
\* when record is TRUE.
html_return(t, record) ==
  /\ th[t].pc = "inline"
  /\ th[t].i > Len(th[t].doc)
  /\ LET content == th[t].out \o (IF th[t].wrap THEN <<"</p>\n">> ELSE <<>>)
         d == th[t].doc
     IN outs' = IF record THEN Put(outs, d, Get(outs, d, {}) \cup {html_template(content)}) ELSE outs
  /\ Set(t, IdleThread)
  /\ UNCHANGED <<self_render, arg, res>>
  /\ UNCHANGED cvars

\* Two threads render documents on one renderer instance.
NextRender ==
  \/ \E t \in Threads, d \in Docs : html_call(t, d)
  \/ \E t \in Threads : render_paragraph(t)
  \/ \E t \in Threads : render_inline(t)
  \/ \E t \in Threads : image_save(t)
  \/ \E t \in Threads : image_set(t)
  \/ \E t \in Threads : render_child(t)
  \/ \E t \in Threads : image_restore(t)
  \/ \E t \in Threads : plain_text_return(t)
  \/ \E t \in Threads : html_return(t, FALSE)

SpecRender == InitPersist /\ [][NextRender]_vars

\* One thread renders documents one after the other on one renderer instance.
NextRenderSeq ==
  \/ \E d \in Docs : html_call(1, d)
  \/ render_paragraph(1)
  \/ render_inline(1)
  \/ image_save(1)
  \/ image_set(1)
  \/ render_child(1)
  \/ image_restore(1)
  \/ plain_text_return(1)
  \/ html_return(1, TRUE)

SpecRenderSeq == InitPersist /\ [][NextRenderSeq]_vars

\* ------------------------------------------------- renderer: code blocks

\* HTMLRenderer.__init__, lines 181-199: the flag it was given, and whether
\* Pygments can be imported.
HTMLRenderer_init(highlight_syntax, pygments_installed) ==
  IF highlight_syntax /\ pygments_installed
    THEN [highlight_syntax |-> TRUE, pygments_formatter |-> "HtmlFormatter"]
    ELSE [highlight_syntax |-> FALSE, pygments_formatter |-> "None"]

\* The languages a fenced code block declares: none, one that Pygments has a
\* lexer for, one it has none for, and one that needs escaping.
Langs == {<<>>, <<"a">>, <<"a", "a">>, <<"<">>}

\* The names get_lexer_by_name resolves.
KnownLangs == {<<"a">>}

\* The code blocks: a fenced one with its declared language, and an indented
\* one, whose lang is the empty string.
CodeElements ==
  {[kind |-> "fenced_code", lang |-> l, code |-> c] : l \in Langs, c \in Texts}
    \cup {[kind |-> "code_block", lang |-> <<>>, code |-> c] : c \in Texts}

\* What the highlighter does with a lexer: it returns, or it raises.
HighlightAnswers == {"ok", "error"}

\* Pygments' highlight(code, lexer, formatter): its wrapper around the escaped,
\* marked-up code.
highlight(code) ==
  <<"<div class=\"highlight\"><pre>", "<span></span>">> \o html_escape(code) \o <<"</pre></div>\n">>

\* str.replace of the wrapper, lines 344-346.
replace_wrapper(s) ==
  [i \in 1..Len(s) |-> IF s[i] = "<div class=\"highlight\"><pre>"
                         THEN "<div class=\"highlight\"><pre class=\"code-block\">"
                         ELSE s[i]]

\* A call's result: whether it raised, and the string it returned.
Returned(out) == [raised |-> FALSE, out |-> out]

Raised == [raised |-> TRUE, out |-> <<>>]

\* The plain code block, lines 353-355.
plain_code_block(element) ==
  LET lang_class == IF element.lang # <<>>
                      THEN <<" class=\"language-">> \o escape_html(element.lang) \o <<"\"">>
                      ELSE <<>>
      escaped_code == html_escape(element.code)
  IN Returned(<<"<pre class=\"code-block\"">> \o lang_class \o <<"><code>">>
                \o escaped_code \o <<"</code></pre>\n">>)

\* A variant without the except clause: what the highlighter raises leaves the
\* call.
render_fenced_code_uncaught(r, element, hl) ==
  IF r.highlight_syntax /\ element.lang # <<>> /\ r.pygments_formatter # "None"
    THEN IF element.lang \in KnownLangs /\ hl = "ok"
           THEN Returned(replace_wrapper(highlight(element.code)) \o <<"\n">>)
           ELSE Raised
    ELSE plain_code_block(element)

\* render_fenced_code, lines 336-355, on the renderer r; hl is what the
\* highlighter does when it is called.
render_fenced_code(r, element, hl) ==
  IF r.highlight_syntax /\ element.lang # <<>> /\ r.pygments_formatter # "None"
    THEN IF element.lang \in KnownLangs /\ hl = "ok"
           THEN Returned(replace_wrapper(highlight(element.code)) \o <<"\n">>)
           ELSE plain_code_block(element)
    ELSE plain_code_block(element)

\* render_code_block, lines 357-358.
render_code_block(r, element, hl) == render_fenced_code(r, element, hl)

\* The calls: a renderer built with the flag, Pygments installed or not, a
\* code block, and what the highlighter does.
CodeCalls ==
  {[op |-> "render_code", highlight_syntax |-> h, pygments_installed |-> p, element |-> e, hl |-> a] :
     h \in BOOLEAN, p \in BOOLEAN, e \in CodeElements, a \in HighlightAnswers}

InitCode ==
  /\ CacheIdle
  /\ self_render = "render"
  /\ th = [t \in Threads |-> IdleThread]
  /\ outs = EmptyMap
  /\ arg \in CodeCalls
  /\ res = NoCall

\* The renderer renders the code block through the method of its kind.
RenderFencedCode ==
  /\ arg.op = "render_code"
  /\ res.op = "none"
  /\ arg.element.kind = "fenced_code"
  /\ LET r == HTMLRenderer_init(arg.highlight_syntax, arg.pygments_installed)
         got == render_fenced_code(r, arg.element, arg.hl)
     IN res' = [op |-> "render_code", raised |-> got.raised, out |-> got.out]
  /\ UNCHANGED <<self_render, th, outs, arg>>
  /\ UNCHANGED cvars

RenderCodeBlock ==
  /\ arg.op = "render_code"
  /\ res.op = "none"
  /\ arg.element.kind = "code_block"
  /\ LET r == HTMLRenderer_init(arg.highlight_syntax, arg.pygments_installed)
         got == render_code_block(r, arg.element, arg.hl)
     IN res' = [op |-> "render_code", raised |-> got.raised, out |-> got.out]
  /\ UNCHANGED <<self_render, th, outs, arg>>
  /\ UNCHANGED cvars

NextCode == RenderFencedCode \/ RenderCodeBlock

SpecCode == InitCode /\ [][NextCode]_vars

\* ------------------------------------------- renderer: free text in the HTML

\* The places where the renderer writes a free text of the document or of its
\* metadata into the HTML.
Sites ==
  {"raw_text", "literal", "plain_text", "link_title", "image_title", "table_header", "table_cell",
   "code_span", "code_block", "meta_key", "meta_value", "title", "header_title", "header_field",
   "header_key", "header_value"}

\* The characters the renderer writes for the text raw at a site:
\* escape_html(raw) for text, titles and table cells (lines 390, 395, 405, 417,
\* 437, 445), html.escape(raw) for code (lines 354, 425), and raw itself where
\* html() and get_header() format metadata into the page (lines 215, 225,
\* 271-302).
placed(site, raw) ==
  CASE site \in {"raw_text", "literal", "plain_text", "link_title", "image_title",
                 "table_header", "table_cell"} -> escape_html(raw)
    [] site \in {"code_span", "code_block"} -> html_escape(raw)
    [] site \in {"meta_key", "meta_value", "title", "header_title", "header_field",
                 "header_key", "header_value"} -> raw

InitEscape ==
  /\ CacheIdle
  /\ self_render = "render"
  /\ th = [t \in Threads |-> IdleThread]
  /\ outs = EmptyMap
  /\ arg \in {[op |-> "place", site |-> s, text |-> x] : s \in Sites, x \in Texts}
  /\ res = NoCall

\* The renderer writes the text at the site.
Place ==
  /\ arg.op = "place"
  /\ res.op = "none"
  /\ res' = [op |-> "place", out |-> placed(arg.site, arg.text)]
  /\ UNCHANGED <<self_render, th, outs, arg>>
  /\ UNCHANGED cvars

NextEscape == Place

SpecEscape == InitEscape /\ [][NextEscape]_vars

\* ------------------------------------------------------- renderer: tables

\* The most columns a table's header row has.
MaxCols == 2

\* The cell texts: one that HTML leaves alone and one that needs escaping.
CellTexts == {<<"a">>, <<"<">>}

\* A header row, and a data row as the source has it: shorter than the header
\* row, as long, or longer.
HeaderRows == UNION {[1..n -> CellTexts] : n \in 1..MaxCols}

SourceRows == UNION {[1..n -> CellTexts] : n \in 0..(MaxCols + 1)}

\* The data rows of a table: none, one or two.
SourceTables == UNION {[1..n -> SourceRows] : n \in {0, 1, 2}}

\* A data row aligned to n columns: missing cells are empty strings, excess
\* cells are dropped.
normalize_row(row, n) == [k \in 1..n |-> IF k <= Len(row) THEN row[k] ELSE <<>>]

\* The Table node the table extension constructs from a header row and the
\* data rows: its rows are aligned to its headers.
Table(headers, rows) ==
  [headers |-> headers, rows |-> [i \in 1..Len(rows) |-> normalize_row(rows[i], Len(headers))]]

\* The loop of lines 436-437 over the headers from the k-th on.
RECURSIVE render_header_cells(_, _)
render_header_cells(headers, k) ==
  IF k > Len(headers) THEN <<>>
  ELSE <<"<th>">> \o escape_html(headers[k]) \o <<"</th>\n">> \o render_header_cells(headers, k + 1)

\* A variant of the loop of lines 444-445 that writes the cells as they are.
RECURSIVE render_cells_unescaped(_, _)
render_cells_unescaped(row, k) ==
  IF k > Len(row) THEN <<>>
  ELSE <<"<td>">> \o row[k] \o <<"</td>\n">> \o render_cells_unescaped(row, k + 1)

\* The loop of lines 444-445 over the cells of a row from the k-th on.
RECURSIVE render_cells(_, _)
render_cells(row, k) ==
  IF k > Len(row) THEN <<>>
  ELSE <<"<td>">> \o escape_html(row[k]) \o <<"</td>\n">> \o render_cells(row, k + 1)

\* The loop of lines 442-446 over the rows from the i-th on.
RECURSIVE render_rows(_, _)
render_rows(rows, i) ==
  IF i > Len(rows) THEN <<>>
  ELSE <<"<tr>\n">> \o render_cells(rows[i], 1) \o <<"</tr>\n">> \o render_rows(rows, i + 1)

\* render_table, lines 428-455; an element without headers and rows gets the
\* generic wrapper around its rendered children.
render_table(element) ==
  IF "headers" \in DOMAIN element /\ "rows" \in DOMAIN element
    THEN <<"<div class=\"table-container\">\n<table class=\"table\">\n">>
           \o <<"<thead>\n<tr>\n">> \o render_header_cells(element.headers, 1) \o <<"</tr>\n</thead>\n">>
           \o <<"<tbody>\n">> \o render_rows(element.rows, 1) \o <<"</tbody>\n">>
           \o <<"</table>\n</div>\n">>
    ELSE <<"<div class=\"table-container\">\n<table class=\"table\">\n">>
           \o element.children \o <<"</table>\n</div>\n">>

InitTable ==
  /\ CacheIdle
  /\ self_render = "render"
  /\ th = [t \in Threads |-> IdleThread]
  /\ outs = EmptyMap
  /\ arg \in {[op |-> "render_table", headers |-> h, rows |-> r] : h \in HeaderRows, r \in SourceTables}
  /\ res = NoCall

\* The table extension constructs the Table node and the renderer renders it.
RenderTable ==
  /\ arg.op = "render_table"
  /\ res.op = "none"
  /\ res' = [op |-> "render_table", out |-> render_table(Table(arg.headers, arg.rows))]
  /\ UNCHANGED <<self_render, th, outs, arg>>
  /\ UNCHANGED cvars

NextTable == RenderTable

SpecTable == InitTable /\ [][NextTable]_vars

\* -------------------------------------------------------------- frontmatter

\* The keys of a frontmatter record.
FmKeys == {"title", "author"}

\* Its values: two scalars, and two nested records written as key and value.
FmValues == {<<"A">>, <<"B">>, <<"x", "A">>, <<"y", "B">>}

\* An Optional[dict] argument: None, or a record, the empty one included.
FmArgs == {None} \cup {Some(d) : d \in UNION {[ks -> FmValues] : ks \in SUBSET FmKeys}}

\* dict.update(other): other's value for each of its keys.
update(d, other) == [k \in DOMAIN d \cup DOMAIN other |-> IF k \in DOMAIN other THEN other[k] ELSE d[k]]

\* What a call leaves: the dict it returned and its two arguments afterwards.
Merged(result, inline, sidecar) == [result |-> result, inline |-> inline, sidecar |-> sidecar]

\* A variant that applies the two updates in the other order.
merge_frontmatter_sidecar_last(inline, sidecar) ==
  LET r1 == IF Truthy(inline) THEN update(EmptyMap, inline.v) ELSE EmptyMap
      r2 == IF Truthy(sidecar) THEN update(r1, sidecar.v) ELSE r1
  IN Merged(r2, inline, sidecar)

\* merge_frontmatter, lines 169-189.
merge_frontmatter(inline, sidecar) ==
  LET r1 == IF Truthy(sidecar) THEN update(EmptyMap, sidecar.v) ELSE EmptyMap
      r2 == IF Truthy(inline) THEN update(r1, inline.v) ELSE r1
  IN Merged(r2, inline, sidecar)

\* FrontmatterProcessor.merge_frontmatter, lines 70-91.
FrontmatterProcessor_merge_frontmatter(inline, sidecar) ==
  LET r1 == IF Truthy(sidecar) THEN update(EmptyMap, sidecar.v) ELSE EmptyMap
      r2 == IF Truthy(inline) THEN update(r1, inline.v) ELSE r1
  IN Merged(r2, inline, sidecar)

InitMerge ==
  /\ CacheIdle
  /\ self_render = "render"
  /\ th = [t \in Threads |-> IdleThread]
  /\ outs = EmptyMap
  /\ arg \in {[op |-> "merge_frontmatter", inline |-> i, sidecar |-> s] : i \in FmArgs, s \in FmArgs}
  /\ res = NoCall

\* The module's function is called.
MergeFunction ==
  /\ arg.op = "merge_frontmatter"
  /\ res.op = "none"
  /\ LET got == merge_frontmatter(arg.inline, arg.sidecar)
     IN res' = [op |-> "merge_frontmatter", result |-> got.result, inline |-> got.inline, sidecar |-> got.sidecar]
  /\ UNCHANGED <<self_render, th, outs, arg>>
  /\ UNCHANGED cvars

\* The processor's method is called.
MergeMethod ==
  /\ arg.op = "merge_frontmatter"
  /\ res.op = "none"
  /\ LET got == FrontmatterProcessor_merge_frontmatter(arg.inline, arg.sidecar)
     IN res' = [op |-> "FrontmatterProcessor.merge_frontmatter", result |-> got.result,
                inline |-> got.inline, sidecar |-> got.sidecar]
  /\ UNCHANGED <<self_render, th, outs, arg>>
  /\ UNCHANGED cvars

NextMerge == MergeFunction \/ MergeMethod

SpecMerge == InitMerge /\ [][NextMerge]_vars

\* ------------------------------------------------------ renderer: headings

\* The heading nodes: ATX and setext, with the text they hold and a level:
\* one of the six, or an integer below or above them.
HeadingElements ==
  {[kind |-> k, level |-> l, children |-> c] :
     k \in {"heading", "setext_heading"}, l \in 0..8, c \in Texts}

\* render_heading, lines 366-368; the children are one raw text.
render_heading(element) ==
  <<"<h", ToString(element.level), " class=\"", "heading-", ToString(element.level), "\">">>
    \o escape_html(element.children)
    \o <<"</h", ToString(element.level), ">\n">>

\* render_setext_heading, lines 370-371.
render_setext_heading(element) == render_heading(element)

InitHeading ==
  /\ CacheIdle
  /\ self_render = "render"
  /\ th = [t \in Threads |-> IdleThread]
  /\ outs = EmptyMap
  /\ arg \in {[op |-> "render_heading", element |-> e] : e \in HeadingElements}
  /\ res = NoCall

RenderHeading ==
  /\ arg.op = "render_heading"
  /\ res.op = "none"
  /\ arg.element.kind = "heading"
  /\ res' = [op |-> "render_heading", out |-> render_heading(arg.element)]
  /\ UNCHANGED <<self_render, th, outs, arg>>
  /\ UNCHANGED cvars

RenderSetextHeading ==
  /\ arg.op = "render_heading"
  /\ res.op = "none"
  /\ arg.element.kind = "setext_heading"
  /\ res' = [op |-> "render_heading", out |-> render_setext_heading(arg.element)]
  /\ UNCHANGED <<self_render, th, outs, arg>>
  /\ UNCHANGED cvars

NextHeading == RenderHeading \/ RenderSetextHeading

SpecHeading == InitHeading /\ [][NextHeading]_vars

\* ------------------------------------------------------ the build command

\* The markdown files a build can discover under input_dir.
BuildFiles == {"a.md", "b.md", "sub/c.md"}

\* What glob or rglob returns: some of the files, each once, in some order.
Discoveries ==
  {s \in UNION {[1..n -> BuildFiles] : n \in 0..Cardinality(BuildFiles)} :
     \A i \in 1..Len(s), j \in 1..Len(s) : i # j => s[i] # s[j]}

\* What happens when a file is processed: it is rendered, the directory of
\* its output cannot be made (line 80 raises), or render_file raises.
FileAnswers == {"ok", "mkdir_error", "render_error"}

\* The build commands: whether the output directory can be made (line 63),
\* the files discovered, and what happens to each file.
BuildCalls ==
  {[op |-> "build", output_dir |-> o, md_files |-> s, answer |-> a] :
     o \in {"ok", "mkdir_error"}, s \in Discoveries, a \in [BuildFiles -> FileAnswers]}

\* The state of a build: its position, the index of the next file, the files
\* whose loop body was entered, the files render_file was called with, the
\* files reported as failed, and whether the completion message was echoed.
BuildState(p, i, processed, rendered, reported, complete) ==
  [op |-> "build", pc |-> p, i |-> i, processed |-> processed, rendered |-> rendered,
   reported |-> reported, complete |-> complete]

InitBuild ==
  /\ CacheIdle
  /\ self_render = "render"
  /\ th = [t \in Threads |-> IdleThread]
  /\ outs = EmptyMap
  /\ arg \in BuildCalls
  /\ res = NoCall

\* build, lines 60-74: the output directory, the discovery of the files, and
\* the return when there are none.
BuildStart ==
  /\ arg.op = "build"
  /\ res.op = "none"
  /\ res' = IF arg.output_dir # "ok" THEN BuildState("raised", 0, <<>>, <<>>, <<>>, FALSE)
            ELSE IF arg.md_files = <<>> THEN BuildState("done", 0, <<>>, <<>>, <<>>, FALSE)
            ELSE BuildState("loop", 1, <<>>, <<>>, <<>>, FALSE)
  /\ UNCHANGED <<self_render, th, outs, arg>>
  /\ UNCHANGED cvars

\* A variant of the loop body without the try statement: an exception leaves
\* the command.
BuildFile_uncaught ==
  /\ res.op = "build"
  /\ res.pc = "loop"
  /\ res.i <= Len(arg.md_files)
  /\ LET md_file == arg.md_files[res.i]
         a == arg.answer[md_file]
     IN res' = [res EXCEPT !.pc = IF a = "ok" THEN "loop" ELSE "raised",
                           !.i = @ + 1,
                           !.processed = Append(@, md_file),
                           !.rendered = IF a = "mkdir_error" THEN @ ELSE Append(@, md_file)]
  /\ UNCHANGED <<self_render, th, outs, arg>>
  /\ UNCHANGED cvars

\* One pass of the loop, lines 76-85: the file is rendered and echoed, or the
\* exception is caught and the file echoed as failed.
BuildFile ==
  /\ res.op = "build"
  /\ res.pc = "loop"
  /\ res.i <= Len(arg.md_files)
  /\ LET md_file == arg.md_files[res.i]
         a == arg.answer[md_file]
     IN res' = [res EXCEPT !.i = @ + 1,
                           !.processed = Append(@, md_file),
                           !.rendered = IF a = "mkdir_error" THEN @ ELSE Append(@, md_file),
                           !.reported = IF a = "ok" THEN @ ELSE Append(@, md_file)]
  /\ UNCHANGED <<self_render, th, outs, arg>>
  /\ UNCHANGED cvars

\* The loop has ended, line 87: the completion message.
BuildComplete ==
  /\ res.op = "build"
  /\ res.pc = "loop"
  /\ res.i > Len(arg.md_files)
  /\ res' = [res EXCEPT !.pc = "done", !.complete = TRUE]
  /\ UNCHANGED <<self_render, th, outs, arg>>
  /\ UNCHANGED cvars

NextBuild == BuildStart \/ BuildFile \/ BuildComplete

SpecBuild == InitBuild /\ [][NextBuild]_vars

\* ------------------------------------------------------ the render command

\* input_file.with_suffix(".html"), line 31, as a file of the working
\* directory.
with_suffix_html(input_file) == IF get_cache_key(input_file) = "/w/a.md" THEN "a.html" ELSE "b.html"

\* The --output option: not given, or a path.
OutputArgs == {None, Some("b.html")}

\* What render_file does when the command calls it: it renders, or it raises.
RenderAnswers == {"ok", "error"}

\* MarkdownRenderer.render_file(input_file, output) on a renderer that holds
\* the manager's store: it writes the output file and records the render with
\* update_cache; what it raises, and the cache file and output files it
\* leaves.
render_file(store, d, existing, fs, input_file, output, rf) ==
  IF rf # "ok"
    THEN [raised |-> "Exception", disk |-> d, existing |-> existing]
    ELSE IF store.kind # "dict"
      THEN [raised |-> "TypeError", disk |-> d, existing |-> existing \cup {output}]
      ELSE LET cache_key == get_cache_key(input_file)
               entry == cache_entry(_calculate_hash(fs[cache_key]), output, "t1", None, None)
               saved == _save_cache(DictStore(Put(store.map, cache_key, entry)), d, "ok")
           IN [raised |-> saved.raised, disk |-> saved.disk, existing |-> existing \cup {output}]

\* How a render command ended: the exception that left it, whether it
\* reported the cached output, whether it called render_file, and whether it
\* aborted after render_file raised.
RenderResult(raised, skipped, invoked, aborted) ==
  [op |-> "render", raised |-> raised, skipped |-> skipped, invoked |-> invoked, aborted |-> aborted]

\* The render command, lines 26-49, run to its end in a process of its own:
\* the manager is constructed, the cache cleared if asked, the cache
\* consulted unless forced, and the renderer called.
render(m, input_file, output, force, clear, io, rf) ==
  /\ pc[m] = "absent"
  /\ LET loaded == _load_cache(disk)
         out == IF output.none THEN with_suffix_html(input_file) ELSE output.v
         cleared == _save_cache(EmptyStore, disk, io)
         store == IF clear THEN EmptyStore ELSE loaded.store
         d == IF clear THEN cleared.disk ELSE disk
         cached == get_cached_output_path(store, outExists, input_file)
         rendered == render_file(store, d, outExists, files, input_file, out, rf)
     IN CASE loaded.raised # "none" ->
               /\ res' = RenderResult(loaded.raised, FALSE, FALSE, FALSE)
               /\ last' = Outcome(loaded.raised, FALSE)
               /\ UNCHANGED <<disk, outExists>>
          [] loaded.raised = "none" /\ ~force /\ query_raises(store) ->
               /\ res' = RenderResult("TypeError", FALSE, FALSE, FALSE)
               /\ last' = Outcome("TypeError", clear /\ cleared.warned)
               /\ disk' = d
               /\ UNCHANGED outExists
          [] loaded.raised = "none" /\ ~force /\ ~query_raises(store)
               /\ ~is_stale(store, files, input_file) /\ ~cached.none ->
               /\ res' = RenderResult("none", TRUE, FALSE, FALSE)
               /\ last' = Outcome("none", clear /\ cleared.warned)
               /\ disk' = d
               /\ UNCHANGED outExists
          [] OTHER ->
               /\ res' = RenderResult("none", FALSE, TRUE, rendered.raised # "none")
               /\ last' = Outcome("none", clear /\ cleared.warned)
               /\ disk' = rendered.disk
               /\ outExists' = rendered.existing
  /\ UNCHANGED <<files, cache_data, pc, snap, mut>>
  /\ UNCHANGED <<self_render, th, outs, arg>>

\* Render commands run one after the other; between two of them the source
\* files are edited, output files are deleted, and the cache file may be
\* replaced.
NextCli ==
  \/ \E p \in PathArgs, o \in OutputArgs, force \in BOOLEAN, rf \in RenderAnswers :
       render(1, p, o, force, FALSE, "ok", rf)
  \/ \E p \in PathArgs, o \in OutputArgs, force \in BOOLEAN, io \in IOAnswers, rf \in RenderAnswers :
       render(1, p, o, force, TRUE, io, rf)
  \/ \E k \in Keys, fs \in FileStates : WriteFile(k, fs)
  \/ \E o \in Outputs : DeleteOutput(o)
  \/ \E d \in ForeignFiles : ForeignWrite(d)

SpecCli == InitPersist /\ [][NextCli]_vars

\* ------------------------------------------------------- repeated updates

\* One process that updates the same paths again and again, with and without
\* a content hash and metadata ("" and {} included), to a.html at t1 or to
\* b.html at t2; a.md becomes unreadable and readable again, and the
\* file system can refuse the write of an update of a.md that passes neither.
NextUpdate ==
  \/ Construct(1)
  \/ \E p \in PathArgs, call \in {<<"a.html", "t1">>, <<"b.html", "t2">>},
        ch \in {None, Some(EmptyStr), Some(_calculate_content_hash(<<97>>))},
        md \in {None, Some(EmptyMap), Some([k |-> "s"])} :
       update_cache(1, p, call[1], ch, md, call[2], "ok")
  \/ update_cache(1, "a.md", "b.html", None, None, "t2", "open_err")
  \/ \E fs \in {Unreadable, [readable |-> TRUE, bytes |-> <<0>>]} : WriteFile("/w/a.md", fs)

SpecUpdate == InitPersist /\ [][NextUpdate]_vars

\* ------------------------------------------------------------------- claims

\* C1: once update_cache(P, O) has completed, is_stale(P) is false in every
\* later state in which P still has the bytes it had at that update and P's
\* entry has not been removed (remove_from_cache(P), clear_cache), whatever
\* was done to other paths, to the output files or to P in between.
C1_FreshUntilBytesChange ==
  \A p \in PathArgs :
    LET k == get_cache_key(p)
    IN (k \in DOMAIN snap[1] /\ files[k] = snap[1][k].file) => ~is_stale(cache_data[1], files, p)

\* Both paths were updated, one after the other, and the bytes of a.md are
\* those of its update: a.md is not stale.
C1_Witness ==
  /\ DOMAIN snap[1] = Keys
  /\ files["/w/a.md"] = snap[1]["/w/a.md"].file
  /\ files["/w/b.md"] # snap[1]["/w/b.md"].file
  /\ ~is_stale(cache_data[1], files, "a.md")

\* C2: is_stale(P) is true whenever P has no entry, and whenever P's bytes
\* differ from the bytes P had at its most recent update_cache (the file
\* having become unreadable or readable counts as a difference).
C2_StaleOnAnyChange ==
  \A p \in PathArgs :
    LET k == get_cache_key(p)
    IN /\ k \notin DOMAIN cache_data[1].map => is_stale(cache_data[1], files, p)
       /\ (k \in DOMAIN snap[1] /\ files[k] # snap[1][k].file) => is_stale(cache_data[1], files, p)

\* a.md was updated while it held one byte and holds another byte now; b.md
\* was updated while readable and has become unreadable since.
C2_Witness ==
  /\ DOMAIN snap[1] = Keys
  /\ snap[1]["/w/a.md"].file.bytes = <<0>>
  /\ files["/w/a.md"] = [readable |-> TRUE, bytes |-> <<1>>]
  /\ snap[1]["/w/b.md"].file = [readable |-> TRUE, bytes |-> <<>>]
  /\ files["/w/b.md"] = Unreadable
  /\ is_stale(cache_data[1], files, "a.md")
  /\ is_stale(cache_data[1], files, "/w/b.md")

\* What get_cached_output_path answers in a state: the recorded path exactly
\* when P has an entry whose output file exists, None otherwise.
OutputPathAnswer(store, existing) ==
  \A p \in PathArgs :
    LET k == get_cache_key(p)
        r == get_cached_output_path(store, existing, p)
    IN /\ ~r.none => (k \in DOMAIN store.map /\ r.v = store.map[k].output_path /\ r.v \in existing)
       /\ (k \in DOMAIN store.map /\ store.map[k].output_path \notin existing) => r.none
       /\ k \notin DOMAIN store.map => r.none

\* C3: get_cached_output_path(P) returns the recorded output path O only when
\* P has an entry and O exists; deleting O leaves the store as it was and
\* makes the answer None for every P recorded with O.
C3_OutputPathOnlyIfExists ==
  /\ [](OutputPathAnswer(cache_data[1], outExists))
  /\ [][\A o \in Outputs :
          DeleteOutput(o) =>
            /\ cache_data' = cache_data
            /\ \A p \in PathArgs :
                 (/\ get_cache_key(p) \in DOMAIN cache_data[1].map
                  /\ cache_data[1].map[get_cache_key(p)].output_path = o)
                 => /\ ~get_cached_output_path(cache_data[1], outExists, p).none
                    /\ get_cached_output_path(cache_data'[1], outExists', p).none]_vars

\* a.md is recorded with a.html, which does not exist: the answer is None and
\* the record is still there; b.md is recorded with b.html, which exists.
C3_Witness ==
  /\ DOMAIN cache_data[1].map = Keys
  /\ cache_data[1].map["/w/a.md"].output_path = "a.html"
  /\ cache_data[1].map["/w/b.md"].output_path = "b.html"
  /\ outExists = {"b.html"}
  /\ get_cached_output_path(cache_data[1], outExists, "a.md").none
  /\ ~get_cached_output_path(cache_data[1], outExists, "/w/b.md").none

\* C10: is_content_stale(P, c) is true when P has no entry; once
\* update_cache(P, O, content_hash = hash of c0) has completed it is false for
\* c = c0 and true for every other c, whatever bytes the file P holds since.
C10_ContentStaleness ==
  \A p \in PathArgs, c \in Contents :
    LET k == get_cache_key(p)
    IN /\ k \notin DOMAIN cache_data[1].map => is_content_stale(cache_data[1], p, c)
       /\ \A c0 \in Contents :
            (k \in DOMAIN snap[1] /\ snap[1][k].content_hash = Some(_calculate_content_hash(c0)))
              => is_content_stale(cache_data[1], p, c) = (c # c0)

\* a.md was updated with the hash of the content "e-acute" and its bytes on
\* disk have changed since: that content is fresh, the others are stale.
C10_Witness ==
  /\ "/w/a.md" \in DOMAIN snap[1]
  /\ snap[1]["/w/a.md"].content_hash = Some(_calculate_content_hash(<<233>>))
  /\ files["/w/a.md"] # snap[1]["/w/a.md"].file
  /\ is_stale(cache_data[1], files, "a.md")
  /\ ~is_content_stale(cache_data[1], "a.md", <<233>>)
  /\ is_content_stale(cache_data[1], "a.md", <<97>>)
  /\ is_content_stale(cache_data[1], "a.md", <<>>)

\* A step of manager 1 that mutates the store: update_cache, clear_cache, or
\* remove_from_cache of an entry that exists.
Mutates ==
  \/ \E p \in PathArgs, md \in MetaArgs, io \in IOAnswers :
       cache_data[1].kind = "dict" /\ update_cache(1, p, "a.html", None, md, "t1", io)
  \/ \E io \in IOAnswers : clear_cache(1, io)
  \/ \E p \in PathArgs, io \in IOAnswers :
       get_cache_key(p) \in DOMAIN cache_data[1].map /\ remove_from_cache(1, p, io)

\* The call returned normally and printed no warning.
Persisted == last.raised = "none" /\ ~last.warned

\* C7 as stated: after every mutation whose persist succeeded, a new manager
\* on the same directory would load a mapping equal to cache_data.
C7_LoadsExactlyMemory ==
  [][(Mutates /\ Persisted') => _load_cache(disk').store = cache_data'[1]]_vars

\* C7, amended: after every mutation whose persist succeeded, the cache file
\* holds the JSON encoding of the whole of cache_data and nothing else, so a
\* new manager loads cache_data as JSON represents it (a tuple as a list): the
\* same mapping whenever JSON encoding changes none of the stored values.
C7_LoadsJsonOfMemory ==
  [][(Mutates /\ Persisted') =>
       /\ disk' = json_dump(cache_data'[1])
       /\ _load_cache(disk').store = json_dump(cache_data'[1])
       /\ (json_dump(cache_data'[1]) = cache_data'[1]
             => _load_cache(disk').store = cache_data'[1])]_vars

\* Both paths are cached, a.md with a tuple in its metadata; the persist
\* succeeded and the file holds the tuple as a list.
C7_Witness ==
  /\ pc[1] = "idle"
  /\ Persisted
  /\ DOMAIN cache_data[1].map = Keys
  /\ "metadata" \in DOMAIN cache_data[1].map["/w/a.md"]
  /\ cache_data[1].map["/w/a.md"].metadata.k = "(s,)"
  /\ "metadata" \notin DOMAIN cache_data[1].map["/w/b.md"]
  /\ disk = json_dump(cache_data[1])
  /\ disk.map["/w/a.md"].metadata.k = "[s]"

\* C8: constructing a CacheManager never raises, and unless the cache file
\* holds a JSON object the in-memory store is the empty mapping.
C8_ConstructNeverRaises ==
  [][Construct(1) =>
       /\ last'.raised = "none"
       /\ pc'[1] = "idle"
       /\ (disk.kind # "dict" => cache_data'[1] = EmptyStore)]_vars

\* C9: when writing the cache file fails during a mutation (the file system
\* refuses, or json.dump cannot write the store), the call returns without
\* raising, prints the warning, and the in-memory store holds the mutation.
C9_FailedPersistOnlyWarns ==
  [][/\ \A p \in PathArgs, md \in MetaArgs, io \in IOAnswers :
          (/\ cache_data[1].kind = "dict"
           /\ update_cache(1, p, "a.html", None, md, "t1", io)
           /\ (io # "ok" \/ ~store_serializable(cache_data'[1])))
          => /\ last'.raised = "none"
             /\ last'.warned
             /\ get_cache_key(p) \in DOMAIN cache_data'[1].map
             /\ ~is_stale(cache_data'[1], files', p)
     /\ \A io \in IOAnswers :
          (clear_cache(1, io) /\ io # "ok")
          => (last'.raised = "none" /\ last'.warned /\ cache_data'[1] = EmptyStore)
     /\ \A p \in PathArgs, io \in IOAnswers :
          (/\ get_cache_key(p) \in DOMAIN cache_data[1].map
           /\ remove_from_cache(1, p, io)
           /\ (io # "ok" \/ ~store_serializable(cache_data'[1])))
          => /\ last'.raised = "none"
             /\ last'.warned
             /\ get_cache_key(p) \notin DOMAIN cache_data'[1].map]_vars

\* C4: two managers that each complete update_cache for a different source
\* path leave a cache file that contains both entries.
C4_NoLostUpdate ==
  (/\ pc[1] = "idle" /\ pc[2] = "idle"
   /\ DOMAIN snap[1] = {"/w/a.md"}
   /\ DOMAIN snap[2] = {"/w/b.md"})
  => (disk.kind = "dict" /\ Keys \subseteq DOMAIN disk.map)

\* C5: a manager constructed while another one is inside _save_cache, the
\* file opened for writing, loads either the complete store the file held
\* before that write or the complete store being written.
C5_NoTornRead ==
  [][\A m \in Procs, w \in Procs :
       (m # w /\ pc[w] = "dump" /\ Construct(m))
       => cache_data'[m] \in {mut[w].onDisk, json_dump(mut[w].post)}]_vars

\* C6: after a process was killed inside _save_cache, a manager constructed
\* on the same directory loads the store as it was before the latest mutation
\* or as it was after it.
C6_CrashLosesAtMostLatest ==
  [][(mut[1].active /\ Construct(1))
       => cache_data'[1] \in {mut[1].pre, mut[1].post}]_vars

\* C11: remove_from_cache(P) deletes exactly P's entry when it is present and
\* leaves every other entry as it was; when P has no entry the in-memory store
\* and the cache file are unchanged and nothing is raised.
C11_RemoveFrame ==
  [][\A p \in PathArgs, io \in IOAnswers :
       remove_from_cache(1, p, io)
       => IF get_cache_key(p) \in DOMAIN cache_data[1].map
            THEN cache_data'[1].map = Del(cache_data[1].map, get_cache_key(p))
            ELSE /\ cache_data'[1] = cache_data[1]
                 /\ disk' = disk
                 /\ last'.raised = "none"]_vars

\* Thread t is inside render_image, between the statement that rebinds
\* self.render and the one that restores it.
InImage(t) == th[t].pc = "children" /\ th[t].frame = "image"

\* Thread t is about to dispatch a node that is no child of an image: the
\* paragraph, or one of the paragraph's children.
AtOuterNode(t) ==
  \/ th[t].pc = "paragraph"
  \/ th[t].pc = "inline" /\ th[t].i <= Len(th[t].doc)

\* C12: whenever no render_image call is under way (each has returned or
\* raised), self.render is the normal render function; and text-only mode is
\* never what a node outside an image's children is dispatched with, in this
\* call or in a call interleaved with it.
C12_ImageModeRestored ==
  /\ (\A t \in Threads : ~InImage(t)) => self_render = "render"
  /\ \A t \in Threads : AtOuterNode(t) => self_render = "render"

\* C13: rendering the same document twice on one renderer instance returns the
\* same output, whatever calls returned or raised in between.
C13_RenderDeterministic ==
  \A d \in DOMAIN outs : Cardinality(outs[d]) <= 1

\* The characters a string of characters and character references spells.
RECURSIVE spelled(_)
spelled(s) ==
  IF s = <<>> THEN <<>>
  ELSE (IF Head(s) \in CharRefs THEN <<"&", ref_tail(Head(s))>> ELSE <<Head(s)>>) \o spelled(Tail(s))

\* The position of the first occurrence of token x in s, 0 if there is none.
IndexOf(s, x) == IF \E i \in 1..Len(s) : s[i] = x THEN CHOOSE i \in 1..Len(s) : s[i] = x /\ \A j \in 1..(i - 1) : s[j] # x ELSE 0

\* The text between the first token open and the first token close of s.
Between(s, open, close) == SubSeq(s, IndexOf(s, open) + 1, IndexOf(s, close) - 1)

\* No character of the emitted text is one HTML gives a meaning to.
NoUnsafeChar(s) == \A i \in 1..Len(s) : s[i] \notin UnsafeChars

\* The highlighter was asked and answered.
HighlighterSucceeds ==
  /\ arg.highlight_syntax
  /\ arg.pygments_installed
  /\ arg.element.lang # <<>>
  /\ arg.element.lang \in KnownLangs
  /\ arg.hl = "ok"

\* C14: render_fenced_code and render_code_block return a string and never
\* raise; the result is the highlighter's only when highlighting is enabled, a
\* language is declared and the highlighter succeeds; in every other case it
\* is the plain code block with the code escaped, carrying a language-<name>
\* class exactly when a language was declared.
C14_HighlightFallback ==
  res.op = "render_code" =>
    /\ ~res.raised
    /\ (res.out[1] = "<div class=\"highlight\"><pre class=\"code-block\">") <=> HighlighterSucceeds
    /\ ~HighlighterSucceeds =>
         /\ res.out[1] = "<pre class=\"code-block\""
         /\ res.out[Len(res.out)] = "</code></pre>\n"
         /\ NoUnsafeChar(Between(res.out, "><code>", "</code></pre>\n"))
         /\ spelled(html_unescape(Between(res.out, "><code>", "</code></pre>\n"))) = spelled(arg.element.code)
         /\ (IndexOf(res.out, " class=\"language-") # 0) <=> (arg.element.lang # <<>>)
         /\ arg.element.lang # <<>> =>
              /\ IndexOf(res.out, " class=\"language-") = 2
              /\ spelled(html_unescape(Between(res.out, " class=\"language-", "\""))) = spelled(html_unescape(arg.element.lang))

\* A fenced block that declares a language Pygments has no lexer for, on a
\* renderer with highlighting enabled, came out as the plain block with its
\* language class.
C14_Witness ==
  /\ res.op = "render_code"
  /\ arg.highlight_syntax /\ arg.pygments_installed
  /\ arg.element.kind = "fenced_code"
  /\ arg.element.lang = <<"a", "a">>
  /\ arg.element.code = <<"<", "&lt;">>
  /\ ~res.raised
  /\ res.out = <<"<pre class=\"code-block\"", " class=\"language-", "a", "a", "\"", "><code>",
                 "&lt;", "&amp;", "lt;", "</code></pre>\n">>

\* C15: whatever free text the renderer places into the HTML (text, titles,
\* table cells, code, metadata keys and values) is decoded and then encoded:
\* what is emitted contains no bare <, >, & or double quote, spells the
\* decoded text, and holds an apostrophe as itself, never as a character
\* reference.
C15_FreeTextEscaped ==
  res.op = "place" =>
    /\ NoUnsafeChar(res.out)
    /\ \A i \in 1..Len(res.out) : res.out[i] # "&#x27;"
    /\ spelled(html_unescape(res.out)) = spelled(html_unescape(arg.text))

\* The texts that s holds between each token open and the next token close,
\* in order.
RECURSIVE Segments(_, _, _)
Segments(s, open, close) ==
  IF IndexOf(s, open) = 0 THEN <<>>
  ELSE LET rest == SubSeq(s, IndexOf(s, open) + 1, Len(s))
       IN <<SubSeq(rest, 1, IndexOf(rest, close) - 1)>>
            \o Segments(SubSeq(rest, IndexOf(rest, close) + 1, Len(rest)), open, close)

\* The emitted cell is the HTML-escaped literal text.
EscapedLiteral(cell, text) ==
  /\ NoUnsafeChar(cell)
  /\ spelled(html_unescape(cell)) = spelled(html_unescape(text))

\* The header cells and the body rows of a rendered table.
HeaderCellsOf(out) == Segments(Between(out, "<thead>\n<tr>\n", "</tr>\n</thead>\n"), "<th>", "</th>\n")

BodyRowsOf(out) == Segments(Between(out, "<tbody>\n", "</tbody>\n"), "<tr>\n", "</tr>\n")

\* C16: the rendered table has one header row with exactly len(H) header
\* cells and exactly len(R) body rows of exactly len(H) cells each, a short
\* row padded with empty cells and a long one cut; each cell is the escaped
\* literal text of the source cell, in source order.
C16_TableRectangular ==
  res.op = "render_table" =>
    /\ Cardinality({i \in 1..Len(res.out) : res.out[i] = "<thead>\n<tr>\n"}) = 1
    /\ Len(HeaderCellsOf(res.out)) = Len(arg.headers)
    /\ \A k \in 1..Len(arg.headers) : EscapedLiteral(HeaderCellsOf(res.out)[k], arg.headers[k])
    /\ Len(BodyRowsOf(res.out)) = Len(arg.rows)
    /\ \A i \in 1..Len(arg.rows) :
         LET cells == Segments(BodyRowsOf(res.out)[i], "<td>", "</td>\n")
         IN /\ Len(cells) = Len(arg.headers)
            /\ \A k \in 1..Len(arg.headers) :
                 EscapedLiteral(cells[k], IF k <= Len(arg.rows[i]) THEN arg.rows[i][k] ELSE <<>>)

\* A table of two columns whose first data row is short and whose second is
\* long has been rendered: two body rows of two cells.
C16_Witness ==
  /\ res.op = "render_table"
  /\ arg.headers = <<<<"a">>, <<"<">>>>
  /\ arg.rows = <<<<<<"<">>>>, <<<<"a">>, <<"<">>, <<"a">>>>>>
  /\ res.out = <<"<div class=\"table-container\">\n<table class=\"table\">\n", "<thead>\n<tr>\n",
                 "<th>", "a", "</th>\n", "<th>", "&lt;", "</th>\n", "</tr>\n</thead>\n", "<tbody>\n",
                 "<tr>\n", "<td>", "&lt;", "</td>\n", "<td>", "</td>\n", "</tr>\n",
                 "<tr>\n", "<td>", "a", "</td>\n", "<td>", "&lt;", "</td>\n", "</tr>\n",
                 "</tbody>\n", "</table>\n</div>\n">>

\* The mapping an Optional[dict] argument stands for: None is the empty one.
AsMapping(a) == IF a.none THEN EmptyMap ELSE a.v

\* C17: the merged record's keys are those of inline and of sidecar; a key of
\* inline has inline's value, whole; a key of sidecar alone has sidecar's
\* value; None and the empty record count as the empty mapping; and the call
\* leaves both arguments as they were.
C17_InlineWinsShallow ==
  res.op \in {"merge_frontmatter", "FrontmatterProcessor.merge_frontmatter"} =>
    /\ DOMAIN res.result = DOMAIN AsMapping(arg.inline) \cup DOMAIN AsMapping(arg.sidecar)
    /\ \A k \in DOMAIN AsMapping(arg.inline) : res.result[k] = AsMapping(arg.inline)[k]
    /\ \A k \in DOMAIN AsMapping(arg.sidecar) \ DOMAIN AsMapping(arg.inline) :
         res.result[k] = AsMapping(arg.sidecar)[k]
    /\ res.inline = arg.inline
    /\ res.sidecar = arg.sidecar

\* Inline and sidecar both hold a nested record under title, and sidecar holds
\* an author as well: the merge took inline's title whole and sidecar's author.
C17_Witness ==
  /\ res.op = "merge_frontmatter"
  /\ arg.inline = Some([k \in {"title"} |-> <<"x", "A">>])
  /\ arg.sidecar = Some([k \in FmKeys |-> IF k = "title" THEN <<"y", "B">> ELSE <<"B">>])
  /\ res.result = [k \in FmKeys |-> IF k = "title" THEN <<"x", "A">> ELSE <<"B">>]

\* The level a heading is rendered at: the node's level, brought into 1..6.
ClampedLevel(level) == IF level < 1 THEN 1 ELSE IF level > 6 THEN 6 ELSE level

\* C19: whatever integer a heading node's level holds, the element emitted is
\* h<n> with class heading-<n>, n the level brought into 1..6, and its closing
\* tag matches its opening tag.
C19_HeadingLevelClamped ==
  res.op = "render_heading" =>
    LET n == ToString(ClampedLevel(arg.element.level))
    IN /\ SubSeq(res.out, 1, 6) = <<"<h", n, " class=\"", "heading-", n, "\">">>
       /\ SubSeq(res.out, Len(res.out) - 2, Len(res.out)) = <<"</h", n, ">\n">>

\* The files of s, in order, whose processing fails.
Failing(s) == SelectSeq(s, LAMBDA f : arg.answer[f] # "ok")

\* C18: once a build has discovered its files, no failure of a file ends it:
\* while it runs it has attempted exactly the files before the next one, each
\* once; when it has ended it has attempted every discovered file exactly
\* once, has reported exactly the files that failed, and has echoed its
\* completion message.
C18_BuildIsolatesFailures ==
  (res.op = "build" /\ arg.output_dir = "ok" /\ arg.md_files # <<>>) =>
    /\ res.pc \in {"loop", "done"}
    /\ res.pc = "loop" =>
         /\ res.i <= Len(arg.md_files) + 1
         /\ res.processed = SubSeq(arg.md_files, 1, res.i - 1)
         /\ ~res.complete
    /\ res.pc = "done" =>
         /\ res.processed = arg.md_files
         /\ res.reported = Failing(arg.md_files)
         /\ res.complete

\* A build of three files has ended: the first could not be rendered, the
\* output directory of the second could not be made, the third was rendered.
C18_Witness ==
  /\ res.op = "build"
  /\ res.pc = "done"
  /\ arg.md_files = <<"a.md", "sub/c.md", "b.md">>
  /\ arg.answer["a.md"] = "render_error"
  /\ arg.answer["sub/c.md"] = "mkdir_error"
  /\ arg.answer["b.md"] = "ok"
  /\ res.processed = arg.md_files
  /\ res.rendered = <<"a.md", "b.md">>
  /\ res.reported = <<"a.md", "sub/c.md">>
  /\ res.complete

\* The cache file holds an entry for the input whose stored hash is the hash
\* of the input's bytes now and whose recorded output file exists.
FreshInCache(input_file) ==
  /\ disk.kind = "dict"
  /\ get_cache_key(input_file) \in DOMAIN disk.map
  /\ Get(disk.map[get_cache_key(input_file)], "hash", EmptyStr) = _calculate_hash(files[get_cache_key(input_file)])
  /\ Get(disk.map[get_cache_key(input_file)], "output_path", "") \in outExists

\* C20: the render command reports the cached output without rendering
\* exactly when --force and --clear-cache are not given and the input is fresh
\* in the cache; in every other case it calls the renderer, and when the
\* renderer raises the command aborts.
C20_RenderSkipsOnlyWhenFresh ==
  [][\A p \in PathArgs, o \in OutputArgs, force \in BOOLEAN, clear \in BOOLEAN,
        io \in IOAnswers, rf \in RenderAnswers :
       render(1, p, o, force, clear, io, rf)
       => /\ res'.skipped <=> (~force /\ ~clear /\ FreshInCache(p))
          /\ ~res'.skipped => res'.invoked
          /\ (res'.invoked /\ rf = "error") => res'.aborted]_vars

\* C21: update_cache(P, ..) on a store that is a dict assigns P a new entry
\* and leaves every other path's entry as it was: the entry holds the hash of
\* P's bytes as they are now, the output path, the timestamp, the content hash
\* if one was passed and is not "", the metadata if some was passed and is not
\* {}, and nothing else, whatever P's entry held before; when no content hash
\* is kept, is_content_stale(P, c) is true for every content c.
C21_UpdateReplacesEntry ==
  [][\A p \in PathArgs, call \in {<<"a.html", "t1">>, <<"b.html", "t2">>},
        ch \in {None, Some(EmptyStr), Some(_calculate_content_hash(<<97>>))},
        md \in {None, Some(EmptyMap), Some([k |-> "s"])}, io \in {"ok", "open_err"} :
       (cache_data[1].kind = "dict" /\ update_cache(1, p, call[1], ch, md, call[2], io))
       => LET k == get_cache_key(p)
              o == call[1]
              now == call[2]
              before == cache_data[1].map
              after == cache_data'[1].map
          IN /\ DOMAIN after = DOMAIN before \cup {k}
             /\ \A x \in DOMAIN before \ {k} : after[x] = before[x]
             /\ DOMAIN after[k] =
                  {"hash", "output_path", "last_processed"}
                    \cup (IF ch \notin {None, Some(EmptyStr)} THEN {"content_hash"} ELSE {})
                    \cup (IF md \notin {None, Some(EmptyMap)} THEN {"metadata"} ELSE {})
             /\ after[k].hash = _calculate_hash(files[k])
             /\ after[k].output_path = o
             /\ after[k].last_processed = now
             /\ "content_hash" \in DOMAIN after[k] => after[k].content_hash = ch.v
             /\ "metadata" \in DOMAIN after[k] => after[k].metadata = md.v
             /\ "content_hash" \notin DOMAIN after[k]
                  => \A c \in Contents : is_content_stale(cache_data'[1], p, c)]_vars

\* An earlier update of a.md stored a content hash and metadata, which the
\* cache file still holds because the write of the latest update was refused;
\* that update passed neither, and the entry in memory has the three base
\* fields only, while b.md's entry still has its content hash and metadata.
C21_Witness ==
  /\ pc[1] = "idle"
  /\ disk.kind = "dict"
  /\ "/w/a.md" \in DOMAIN disk.map
  /\ {"content_hash", "metadata"} \subseteq DOMAIN disk.map["/w/a.md"]
  /\ last.warned
  /\ DOMAIN cache_data[1].map = {"/w/a.md", "/w/b.md"}
  /\ DOMAIN cache_data[1].map["/w/a.md"] = {"hash", "output_path", "last_processed"}
  /\ {"content_hash", "metadata"} \subseteq DOMAIN cache_data[1].map["/w/b.md"]
  /\ \A c \in Contents : is_content_stale(cache_data[1], "a.md", c)
  /\ ~is_content_stale(cache_data[1], "/w/b.md", <<97>>)

====
